---- MODULE Spec2Model ----
(***************************************************************************)
(* Model of src/native/fenster_bridge.c: the bridge handle, its pixel      *)
(* buffer, the title copy and the resize detection, on top of a small      *)
(* allocator model (calloc / strdup / free) and of the fenster window      *)
(* library, whose calls are the environment of the bridge.                 *)
(*                                                                         *)
(* Floats (f.scale, prev_scale) are fixed-point numbers: the integer n     *)
(* stands for the scale n / ScaleDen.  Buffer sizes are in bytes.          *)
(* The model is the X11 build (neither __APPLE__ nor _WIN32), which is the *)
(* build that keeps an XImage bound to the pixel buffer.                   *)
(*                                                                         *)
(* The exported functions may be called in any order on a live handle, as  *)
(* the bridge itself checks none.  copy_buf, get_keys, get_mod, get_size   *)
(* and get_scale write no field of the handle and have no action here;     *)
(* pixel contents, key and modifier state are not part of the state.       *)
(***************************************************************************)
EXTENDS Integers, Sequences, FiniteSets, TLC

\* ---------------------------------------------------------------- bounds
MaxWidth == 2      \* logical widths range over 1..MaxWidth
MaxHeight == 1     \* logical heights range over 1..MaxHeight
ScaleSteps == 2    \* scale factors range over 1.0 .. 1.0 + ScaleSteps / ScaleDen
NAddr == 2         \* number of distinct heap addresses for pixel buffers

\* ------------------------------------------------------------- constants
PixelBytes == 4    \* sizeof(uint32_t)
ScaleDen == 2      \* a float scale s is the integer s * ScaleDen (halves)
NULL == 0
TitleAddr == 1     \* the block strdup returns
NotLive == -1      \* heap entry of an address that holds no live block
NoImg == 0         \* f.img == NULL (no XImage yet)
HasImg == 1        \* f.img points to an XImage
HasDpy == 1        \* f.dpy is an open display connection

Widths == 1..MaxWidth
Heights == 1..MaxHeight
Scales == ScaleDen..(ScaleDen + ScaleSteps)
One == ScaleDen    \* the scale 1.0
Addr == 1..NAddr
OpenStatus == {0, -1}
Continue == 0      \* fenster_loop: keep running
Stop == 1          \* fenster_loop: the window was closed

VARIABLES
  hstate,      \* "none": no handle yet, "live": handle returned by create, "closed"
  fb,          \* the fenster_bridge record (fields of the struct)
  heap,        \* pixel-buffer heap: address -> size in bytes of the live block, or NotLive
  objs,        \* the handle record and the title copy: "unalloc" | "live" | "freed"
  badFree,     \* TRUE once free() was called on a block that is not live
  closeLog,    \* the calls fenster_bridge_close made, in order
  lastOp,      \* the last exported function called
  libRet,      \* status of the fenster_open / fenster_loop it delegated to (0 if none)
  ret,         \* its return value (0 where it returns void)
  outW, outH,  \* its int* out-parameters (0 where it has none)
  path,        \* last open/loop: "skip" (library open failed), "same" (sizes equal
               \* the cache), "ok" / "fail" (sizes differ, calloc returned a block / NULL)
  sinceClear,  \* history: what happened to the physical size since the resize flag
               \* was last cleared (or since creation): "quiet" (equal to the cache
               \* then, unchanged since), "pending" (different from the cache then,
               \* unchanged since), "changed"; "untracked" throughout under Spec
  swaps,       \* history: the calls ("open", "loop") that installed a new buffer since
               \* get_resized last ran (or since creation); {"untracked"}
               \* throughout unless the behaviour starts in InitSwaps
  scen         \* history: progress of the sequence create, set_scale(integer),
               \* pumps in which the library changes nothing: "created", "scaled",
               \* "pumped" (a pump of the sequence got past its calloc), else "off"

vars == <<hstate, fb, heap, objs, badFree, closeLog, lastOp, libRet, ret,
          outW, outH, path, sinceClear, swaps, scen>>

\* ------------------------------------------------------------- allocator
\* calloc(n, 4): NULL on failure, else an address that holds no live block.
CallocResults(h) == {NULL} \cup {a \in Addr : h[a] = NotLive}

\* free(p) is defined for NULL and for live blocks only.
FreeOk(h, p) == p = NULL \/ h[p] # NotLive

Free(h, p) == IF p # NULL /\ h[p] # NotLive THEN [h EXCEPT ![p] = NotLive] ELSE h

\* Mutation of ScaledInt: the product is rounded to the nearest int.
ScaledIntRounded(x, scale) == (2 * x * scale + ScaleDen) \div (2 * ScaleDen)

\* (int)(x * scale) for a non-negative int x: truncation toward zero.
ScaledInt(x, scale) == (x * scale) \div ScaleDen

\* ------------------------------------------------------- window library
\* The library derives the physical size from the logical size and the scale.
\* It never writes f.buf.
Derive(f, w, h, sc) ==
  [f EXCEPT !.width = w, !.height = h, !.scale = sc,
            !.phys_width = ScaledInt(w, sc), !.phys_height = ScaledInt(h, sc)]

\* fenster_loop handles one event per call and returns <<status, f>>: no
\* event, a new logical width or height, a display of another scale, or the
\* close of the window (status Stop).
LibLoopResults(f) ==
  ({Continue} \X ({f} \cup {Derive(f, w, f.height, f.scale) : w \in Widths}
                     \cup {Derive(f, f.width, h, f.scale) : h \in Heights}
                     \cup {Derive(f, f.width, f.height, sc) : sc \in Scales}))
  \cup {<<Stop, f>>}

\* fenster_open keeps the logical size, picks the display scale and, when it
\* succeeds, leaves the display connection and the XImage over f.buf.
LibOpenResults(f, result) ==
  IF result = 0
    THEN {[Derive(f, f.width, f.height, sc) EXCEPT !.dpy = HasDpy, !.img = HasImg] :
            sc \in Scales}
    ELSE {f} \cup {Derive(f, f.width, f.height, sc) : sc \in Scales}

\* XDestroyImage(img) releases the image and then free()s img->data.
XDestroyImage(h, data) == Free(h, data)

\* -------------------------------------------------------------- history
PhysSize(f) == <<f.phys_width, f.phys_height>>

\* The physical size is the size the cache holds.
InSyncWithCache(b) == PhysSize(b.f) = <<b.prev_width, b.prev_height>>

\* Mutation of SizeChanged: a resize needs both dimensions to differ.
SizeChangedBoth(b) ==
  b.f.phys_width # b.prev_width /\ b.f.phys_height # b.prev_height

\* Mutation of SizeChanged: a scale differing from prev_scale counts as a resize.
SizeChangedOrScale(b) ==
  \/ b.f.phys_width # b.prev_width \/ b.f.phys_height # b.prev_height
  \/ b.f.scale # b.prev_scale

\* Mutation of SizeChanged: only the width is compared with the cache.
SizeChangedWidthOnly(b) == b.f.phys_width # b.prev_width

\* The size test of lines 55-56 and 77-78.
SizeChanged(b) ==
  b.f.phys_width # b.prev_width \/ b.f.phys_height # b.prev_height

\* The library left struct fenster alone during this step.
LibKept == fb'.f.width = fb.f.width /\ fb'.f.height = fb.f.height
           /\ fb'.f.scale = fb.f.scale /\ PhysSize(fb'.f) = PhysSize(fb.f)

\* Updates the history variables from the step just taken; conjoined to
\* every action after its assignments.
Observe ==
  /\ sinceClear' =
       IF sinceClear = "untracked" THEN "untracked"
       ELSE IF lastOp' = "create" /\ hstate' = "live"
         THEN IF InSyncWithCache(fb') THEN "quiet" ELSE "pending"
       ELSE IF lastOp' = "get_resized"
         THEN IF InSyncWithCache(fb') THEN "quiet" ELSE "pending"
       ELSE IF PhysSize(fb'.f) # PhysSize(fb.f) THEN "changed"
       ELSE sinceClear
  /\ swaps' =
       IF swaps = {"untracked"} THEN swaps
       ELSE IF lastOp' \in {"create", "get_resized"} THEN {}
       ELSE IF lastOp' \in {"open", "loop"} /\ fb'.buf # fb.buf THEN swaps \cup {lastOp'}
       ELSE swaps
  /\ scen' =
       IF lastOp' = "create"
         THEN IF hstate' = "live" THEN "created" ELSE "off"
       ELSE IF lastOp' = "set_scale"
         THEN IF scen = "created" /\ fb'.f.scale % ScaleDen = 0 THEN "scaled" ELSE "off"
       ELSE IF lastOp' = "loop"
         THEN IF scen \in {"scaled", "pumped"} /\ LibKept
                THEN IF path' = "fail" THEN scen ELSE "pumped"
                ELSE "off"
       ELSE IF lastOp' \in {"open", "close"} THEN "off"
       ELSE scen

\* ------------------------------------------------------------------ Init
ZeroF == [width |-> 0, height |-> 0, phys_width |-> 0, phys_height |-> 0,
          scale |-> 0, buf |-> NULL, dpy |-> NULL, img |-> NoImg]

ZeroFb == [f |-> ZeroF, buf |-> NULL, title_copy |-> NULL, resized |-> 0,
           prev_width |-> 0, prev_height |-> 0, prev_scale |-> 0]

InitBridge ==
  /\ hstate = "none"
  /\ fb = ZeroFb
  /\ heap = [a \in Addr |-> NotLive]
  /\ objs = [o \in {"fb", "title"} |-> "unalloc"]
  /\ badFree = FALSE
  /\ closeLog = << >>
  /\ lastOp = "none"
  /\ libRet = 0
  /\ ret = 0
  /\ outW = 0
  /\ outH = 0
  /\ path = "none"
  /\ scen = "off"

Init == InitBridge /\ sinceClear = "untracked" /\ swaps = {"untracked"}

\* The same program with the history of the physical size recorded.
InitClear == InitBridge /\ sinceClear = "quiet" /\ swaps = {"untracked"}

\* The same program with the buffer swaps since the last read recorded.
InitSwaps == InitBridge /\ sinceClear = "untracked" /\ swaps = {}

\* --------------------------------------------------------------- create
\* Mutation of BufBytes: the element size is left out of the allocation.
BufBytesNoElemSize(w, h) == w * h

\* Byte size of a buffer of w x h pixels: calloc((size_t)w * (size_t)h, 4).
BufBytes(w, h) == w * h * PixelBytes

\* Mutation of NewHandle: the cache of the previous size is left zeroed.
NewHandleNoSeed(w, h, new_buf, title) ==
  [f |-> [ZeroF EXCEPT !.width = w, !.height = h, !.buf = new_buf],
   buf |-> new_buf, title_copy |-> title, resized |-> 0,
   prev_width |-> 0, prev_height |-> 0, prev_scale |-> One]

\* Lines 38-45: the handle as create returns it.
NewHandle(w, h, new_buf, title) ==
  [f |-> [ZeroF EXCEPT !.width = w, !.height = h, !.buf = new_buf],
   buf |-> new_buf, title_copy |-> title, resized |-> 0,
   prev_width |-> w, prev_height |-> h, prev_scale |-> One]

\* fenster_bridge_create(title, w, h); fbOk: whether the calloc of the handle
\* record succeeds; new_buf: result of the buffer calloc.  strdup is taken to
\* succeed.
fenster_bridge_create(w, h, fbOk, new_buf) ==
  /\ hstate = "none"
  /\ lastOp' = "create"
  /\ libRet' = 0 /\ outW' = 0 /\ outH' = 0 /\ path' = "none"
  /\ UNCHANGED <<badFree, closeLog>>
  /\ IF ~fbOk
       THEN /\ ret' = NULL
            /\ new_buf = NULL
            /\ UNCHANGED <<hstate, fb, heap, objs>>
       ELSE IF new_buf = NULL
         THEN \* free(fb); return NULL
              /\ ret' = NULL
              /\ objs' = [objs EXCEPT !["fb"] = "freed"]
              /\ UNCHANGED <<hstate, fb, heap>>
         ELSE /\ ret' = 1
              /\ hstate' = "live"
              /\ heap' = [heap EXCEPT ![new_buf] = BufBytes(w, h)]
              /\ objs' = [objs EXCEPT !["fb"] = "live", !["title"] = "live"]
              /\ fb' = NewHandle(w, h, new_buf, TitleAddr)
  /\ Observe

\* ----------------------------------------------------------------- open
\* Mutation of OpenFailed: the status of fenster_open is not tested.
OpenFailedNever(result) == FALSE

\* Line 52: the early return when fenster_open fails.
OpenFailed(result) == result # 0

\* Mutation of AllocOk: the calloc result is not tested.
AllocOkAlways(new_buf) == TRUE

\* Lines 59 and 84: the test of the calloc result.
AllocOk(new_buf) == new_buf # NULL

\* What became of the calloc of lines 57 / 83: not reached, NULL, a block.
PathOf(b, new_buf) ==
  IF ~SizeChanged(b) THEN "same"
  ELSE IF new_buf = NULL THEN "fail" ELSE "ok"

\* Mutation of OpenSwap: open raises the resize flag as loop does.
OpenSwapRaisesFlag(b, new_buf) ==
  [b EXCEPT !.buf = new_buf, !.f.buf = new_buf, !.resized = 1,
            !.prev_width = b.f.phys_width, !.prev_height = b.f.phys_height]

\* Mutation of OpenSwap: the cached previous size is not updated.
OpenSwapNoCache(b, new_buf) == [b EXCEPT !.buf = new_buf, !.f.buf = new_buf]

\* Mutation of OpenSwap: the window state keeps pointing at the old buffer.
OpenSwapNoRewire(b, new_buf) ==
  [b EXCEPT !.buf = new_buf,
            !.prev_width = b.f.phys_width, !.prev_height = b.f.phys_height]

\* Lines 60-64: install new_buf and update the cache.
OpenSwap(b, new_buf) ==
  [b EXCEPT !.buf = new_buf, !.f.buf = new_buf,
            !.prev_width = b.f.phys_width, !.prev_height = b.f.phys_height]

\* fenster_bridge_open(fb); result, f1: status and effect of fenster_open;
\* new_buf: result of the calloc of line 57 (NULL too when it is not reached).
fenster_bridge_open(result, f1, new_buf) ==
  /\ hstate = "live"
  /\ f1 \in LibOpenResults(fb.f, result)
  /\ lastOp' = "open"
  /\ libRet' = result
  /\ outW' = 0 /\ outH' = 0
  /\ UNCHANGED <<hstate, objs, closeLog>>
  /\ LET b1 == [fb EXCEPT !.f = f1] IN
     IF OpenFailed(result)
       THEN /\ ret' = result
            /\ new_buf = NULL
            /\ path' = "skip"
            /\ fb' = b1
            /\ UNCHANGED <<heap, badFree>>
       ELSE /\ ret' = 0
            /\ path' = IF result # 0 THEN "skip" ELSE PathOf(b1, new_buf)
            /\ ~SizeChanged(b1) => new_buf = NULL
            /\ IF SizeChanged(b1) /\ AllocOk(new_buf)
                 THEN /\ badFree' = (badFree \/ ~FreeOk(heap, b1.buf))
                      /\ heap' = [Free(heap, b1.buf) EXCEPT ![new_buf] =
                                    BufBytes(b1.f.phys_width, b1.f.phys_height)]
                      /\ fb' = [OpenSwap(b1, new_buf) EXCEPT !.prev_scale = b1.f.scale]
                 ELSE /\ fb' = [b1 EXCEPT !.prev_scale = b1.f.scale]
                      /\ UNCHANGED <<heap, badFree>>
  /\ Observe

\* ----------------------------------------------------------------- loop
\* Mutation of ImgDataAtDestroy: img->data still points at the old buffer.
ImgDataAtDestroyKept(b) == b.buf

\* Lines 92-93: the data pointer the old XImage holds when it is destroyed;
\* b is the handle before the swap of lines 85-87.
ImgDataAtDestroy(b) == NULL

\* Mutation of LoopSwap: the flag is not raised.
LoopSwapNoFlag(b, new_buf) ==
  [b EXCEPT !.buf = new_buf, !.f.buf = new_buf,
            !.prev_width = b.f.phys_width, !.prev_height = b.f.phys_height,
            !.prev_scale = b.f.scale]

\* Mutation of LoopSwap: the cached previous size is not updated.
LoopSwapNoCache(b, new_buf) ==
  [b EXCEPT !.buf = new_buf, !.f.buf = new_buf, !.resized = 1,
            !.prev_scale = b.f.scale]

\* Lines 85-87 and 100-103: install new_buf, raise the flag, update the cache.
LoopSwap(b, new_buf) ==
  [b EXCEPT !.buf = new_buf, !.f.buf = new_buf, !.resized = 1,
            !.prev_width = b.f.phys_width, !.prev_height = b.f.phys_height,
            !.prev_scale = b.f.scale]

\* Mutation of LoopReturn: loop always reports that the window goes on.
LoopReturnContinue(result) == Continue

\* Line 107: loop returns the status fenster_loop gave at line 73.
LoopReturn(result) == result

\* fenster_bridge_loop(fb); result, f1: status and effect of fenster_loop;
\* new_buf: result of the calloc of line 83 (NULL too when it is not reached).
fenster_bridge_loop(result, f1, new_buf) ==
  /\ hstate = "live"
  /\ <<result, f1>> \in LibLoopResults(fb.f)
  /\ lastOp' = "loop"
  /\ libRet' = result
  /\ ret' = LoopReturn(result)
  /\ outW' = 0 /\ outH' = 0
  /\ UNCHANGED <<hstate, objs, closeLog>>
  /\ LET b1 == [fb EXCEPT !.f = f1] IN
     /\ path' = PathOf(b1, new_buf)
     /\ ~SizeChanged(b1) => new_buf = NULL
     /\ IF SizeChanged(b1) /\ AllocOk(new_buf)
          THEN LET h1 == Free(heap, b1.buf)
                   h2 == [h1 EXCEPT ![new_buf] =
                            BufBytes(b1.f.phys_width, b1.f.phys_height)]
                   d  == ImgDataAtDestroy(b1)
                   h3 == IF b1.f.img # NoImg THEN XDestroyImage(h2, d) ELSE h2
               IN /\ badFree' = (\/ badFree
                                 \/ ~FreeOk(heap, b1.buf)
                                 \/ (b1.f.img # NoImg /\ ~FreeOk(h2, d)))
                  /\ heap' = h3
                  /\ fb' = [LoopSwap(b1, new_buf) EXCEPT !.f.img = HasImg]
          ELSE /\ fb' = b1
               /\ UNCHANGED <<heap, badFree>>
  /\ Observe

\* ---------------------------------------------------------------- close
\* Mutation of CloseCalls: the window is torn down after the releases.
CloseCallsTeardownLast == <<"free_buf", "free_title", "free_fb", "fenster_close">>

\* The calls fenster_bridge_close makes on a non-null handle, in order.
CloseCalls == <<"fenster_close", "free_buf", "free_title", "free_fb">>

\* fenster_bridge_close(fb) on a live handle.  fenster_close tears the
\* window down and releases nothing the bridge owns.  fb keeps the last
\* contents of the released record.
fenster_bridge_close ==
  /\ hstate = "live"
  /\ hstate' = "closed"
  /\ lastOp' = "close"
  /\ libRet' = 0 /\ ret' = 0 /\ outW' = 0 /\ outH' = 0 /\ path' = "none"
  /\ closeLog' = closeLog \o CloseCalls
  /\ badFree' = (\/ badFree
                 \/ ~FreeOk(heap, fb.buf)
                 \/ (fb.title_copy # NULL /\ objs["title"] # "live")
                 \/ objs["fb"] # "live")
  /\ heap' = Free(heap, fb.buf)
  /\ objs' = [o \in {"fb", "title"} |-> IF objs[o] = "live" THEN "freed" ELSE objs[o]]
  /\ UNCHANGED fb
  /\ Observe

\* fenster_bridge_close(NULL): returns at once.
fenster_bridge_close_null ==
  /\ hstate = "none"
  /\ lastOp' = "close"
  /\ libRet' = 0 /\ ret' = 0 /\ outW' = 0 /\ outH' = 0 /\ path' = "none"
  /\ UNCHANGED <<hstate, fb, heap, objs, badFree, closeLog>>
  /\ Observe

\* ------------------------------------------------------------ accessors
fenster_bridge_get_buf ==
  /\ hstate = "live"
  /\ lastOp' = "get_buf"
  /\ ret' = fb.buf
  /\ libRet' = 0 /\ outW' = 0 /\ outH' = 0 /\ path' = "none"
  /\ UNCHANGED <<hstate, fb, heap, objs, badFree, closeLog>>
  /\ Observe

\* Mutation of ClearResized: the read leaves the flag up.
ClearResizedKeep(b) == b

\* Line 139: the flag after the read.
ClearResized(b) == [b EXCEPT !.resized = 0]

fenster_bridge_get_resized ==
  /\ hstate = "live"
  /\ lastOp' = "get_resized"
  /\ ret' = fb.resized
  /\ outW' = fb.f.phys_width /\ outH' = fb.f.phys_height
  /\ libRet' = 0 /\ path' = "none"
  /\ fb' = ClearResized(fb)
  /\ UNCHANGED <<hstate, heap, objs, badFree, closeLog>>
  /\ Observe

fenster_bridge_set_scale(scale) ==
  /\ hstate = "live"
  /\ lastOp' = "set_scale"
  /\ ret' = 0
  /\ libRet' = 0 /\ outW' = 0 /\ outH' = 0 /\ path' = "none"
  /\ fb' = [fb EXCEPT !.f.scale = scale,
                      !.f.phys_width = ScaledInt(fb.f.width, scale),
                      !.f.phys_height = ScaledInt(fb.f.height, scale)]
  /\ UNCHANGED <<hstate, heap, objs, badFree, closeLog>>
  /\ Observe

\* ----------------------------------------------------------------- Next
CreateStep ==
  \E w \in Widths, h \in Heights, fbOk \in BOOLEAN :
    \E new_buf \in CallocResults(heap) : fenster_bridge_create(w, h, fbOk, new_buf)

OpenStep ==
  \E result \in OpenStatus : \E f1 \in LibOpenResults(fb.f, result) :
    \E new_buf \in CallocResults(heap) : fenster_bridge_open(result, f1, new_buf)

LoopStep ==
  \E lib \in LibLoopResults(fb.f) : \E new_buf \in CallocResults(heap) :
    fenster_bridge_loop(lib[1], lib[2], new_buf)

SetScaleStep == \E scale \in Scales : fenster_bridge_set_scale(scale)

Next ==
  \/ CreateStep
  \/ OpenStep
  \/ LoopStep
  \/ fenster_bridge_close
  \/ fenster_bridge_close_null
  \/ fenster_bridge_get_buf
  \/ fenster_bridge_get_resized
  \/ SetScaleStep

Spec == Init /\ [][Next]_vars

SpecClear == InitClear /\ [][Next]_vars

SpecSwaps == InitSwaps /\ [][Next]_vars

\* A pump whose size test fires and whose calloc returns a block.
RetryOk ==
  /\ hstate = "live"
  /\ lastOp' = "loop" /\ path' = "ok"
  /\ \E lib \in LibLoopResults(fb.f) : \E new_buf \in CallocResults(heap) :
       fenster_bridge_loop(lib[1], lib[2], new_buf)

\* The event loop keeps pumping and memory does not stay exhausted for ever.
SpecRetry == Init /\ [][Next]_vars /\ WF_vars(RetryOk)

\* ======================================================================
\* Properties
\* ======================================================================
Live == hstate = "live"

\* Allocated length in bytes of the block fb->buf points to.
BufLen == heap[fb.buf]

PhysBytes(f) == f.phys_width * f.phys_height * PixelBytes

\* C1 (as stated): in every state of a live handle the allocated length of
\* the pixel buffer equals phys_width x phys_height x 4 bytes.
C1_AlwaysPhysSized == Live => BufLen = PhysBytes(fb.f)

\* C1 (amended): the allocated length of the pixel buffer equals
\* phys_width x phys_height x 4 bytes whenever the physical size equals the
\* cached previous size, and that is the case after every open that returned
\* 0 and every loop whose reallocation, if any, did not fail.
C1_PhysSizedWhenSynced ==
  Live =>
    /\ InSyncWithCache(fb) => BufLen = PhysBytes(fb.f)
    /\ (lastOp \in {"open", "loop"} /\ path \in {"same", "ok"}) =>
         /\ InSyncWithCache(fb)
         /\ BufLen = PhysBytes(fb.f)

C1_Witness ==
  /\ Live /\ lastOp = "loop" /\ path = "ok"
  /\ fb.f.phys_width > fb.f.width
  /\ BufLen = PhysBytes(fb.f)

\* C2: in every state of a live handle the window library's buffer pointer
\* and the bridge's buffer pointer are the same address.
C2_SingleBufferPointer == Live => (fb.f.buf = fb.buf /\ fb.buf # NULL)

C2_Witness ==
  /\ Live /\ lastOp = "open" /\ path = "ok"
  /\ fb.f.buf = fb.buf

\* C3: a pump that sees a physical size different from the cache and whose
\* allocation succeeds leaves a buffer at another address, of exactly
\* phys_width x phys_height x 4 bytes, which get_buf returns; the resize flag
\* it raised stays up until get_resized reads it, so the first get_resized
\* after the pump returns 1 and a second one right after returns 0.
C3_ResizeReportedOnce ==
  [][ /\ (lastOp' = "loop" /\ path' = "ok") =>
           /\ fb'.buf # fb.buf
           /\ heap'[fb'.buf] = PhysBytes(fb'.f)
           /\ fb'.resized = 1
      /\ lastOp' = "get_buf" => ret' = fb.buf
      /\ (fb.resized = 1 /\ hstate' = "live" /\ lastOp' # "get_resized") => fb'.resized = 1
      /\ lastOp' = "get_resized" =>
           /\ ret' = fb.resized
           /\ fb'.resized = 0
           /\ (lastOp = "loop" /\ path = "ok") => ret' = 1
           /\ lastOp = "get_resized" => ret' = 0
    ]_vars

C3_Witness ==
  /\ Live /\ lastOp = "get_resized" /\ ret = 1
  /\ fb.resized = 0
  /\ BufLen = PhysBytes(fb.f)

\* C4 (as stated, for a window that has been opened): get_resized returns 0
\* and leaves the dimensions alone whenever the physical size has not changed
\* since the flag was last cleared (or since creation).
C4_FalseUnlessPhysChanged ==
  [][ (lastOp' = "get_resized" /\ sinceClear # "changed" /\ fb.f.dpy = HasDpy) =>
        /\ ret' = 0
        /\ outW' = fb.f.phys_width /\ outH' = fb.f.phys_height
        /\ PhysSize(fb'.f) = PhysSize(fb.f)
    ]_vars

\* C4 (amended): get_resized returns 0 and leaves the dimensions alone
\* whenever the physical size equalled the cached previous size when the flag
\* was last cleared (or at creation) and has not changed since.
C4_FalseWhenQuiet ==
  [][ (lastOp' = "get_resized" /\ sinceClear = "quiet") =>
        /\ ret' = 0
        /\ outW' = fb.f.phys_width /\ outH' = fb.f.phys_height
        /\ PhysSize(fb'.f) = PhysSize(fb.f)
        /\ fb'.f.width = fb.f.width /\ fb'.f.height = fb.f.height
    ]_vars

C4_Witness ==
  /\ Live /\ lastOp = "get_resized" /\ ret = 0
  /\ sinceClear = "quiet"
  /\ fb.f.dpy = HasDpy
  /\ outW = fb.prev_width /\ outH = fb.prev_height

\* C5 (as stated): get_resized returns 1 exactly when open or loop installed
\* a buffer for a new physical size since get_resized last ran; it reports the
\* physical size and clears the flag.
C5_TrueIffAnySwap ==
  [][ lastOp' = "get_resized" =>
        /\ (ret' = 1) <=> (swaps # {})
        /\ ret' \in {0, 1}
        /\ outW' = fb.f.phys_width /\ outH' = fb.f.phys_height
        /\ fb'.resized = 0
    ]_vars

\* C5 (amended): get_resized returns 1 exactly when loop installed a buffer
\* for a new physical size since get_resized last ran (a buffer installed by
\* open does not count); it reports the physical size and clears the flag.
C5_TrueIffLoopSwap ==
  [][ lastOp' = "get_resized" =>
        /\ (ret' = 1) <=> ("loop" \in swaps)
        /\ ret' \in {0, 1}
        /\ outW' = fb.f.phys_width /\ outH' = fb.f.phys_height
        /\ fb'.resized = 0
    ]_vars

C5_Witness ==
  /\ Live /\ lastOp = "get_resized" /\ ret = 1
  /\ swaps = {}
  /\ outW = fb.f.phys_width /\ outH = fb.f.phys_height
  /\ outW > 0

\* The sequence create(w, h), set_scale(s) with an integer s, pumps in which
\* the library changes nothing.
IsScenarioPump == lastOp' = "loop" /\ scen' # "off"

IntegerScaled(b0, b1) ==
  /\ b1.f.scale % ScaleDen = 0
  /\ b1.f.phys_width = b0.f.width * (b1.f.scale \div ScaleDen)
  /\ b1.f.phys_height = b0.f.height * (b1.f.scale \div ScaleDen)

LiveBuffers == {a \in Addr : heap[a] # NotLive}

Count(seq, x) == Cardinality({i \in DOMAIN seq : seq[i] = x})

C7_NoLeakNoDoubleFree ==
  /\ ~badFree
  /\ Live =>
       /\ LiveBuffers = {fb.buf}
       /\ objs["fb"] = "live" /\ objs["title"] = "live"
       /\ closeLog = << >>
  /\ hstate = "none" =>
       /\ LiveBuffers = {}
       /\ \A o \in DOMAIN objs : objs[o] # "live"
  /\ hstate = "closed" =>
       /\ LiveBuffers = {}
       /\ \A o \in DOMAIN objs : objs[o] = "freed"
       /\ \A c \in {"free_buf", "free_title", "free_fb"} : Count(closeLog, c) = 1

C7_Witness ==
  /\ hstate = "closed" /\ lastOp = "close"
  /\ fb.resized = 1 /\ fb.f.dpy = HasDpy
  /\ LiveBuffers = {}
  /\ ~badFree

\* C8: when fenster_open fails, fenster_bridge_open returns its status and
\* leaves the buffer pointer, the heap, the cached previous width, height and
\* scale and the resize flag as they were.
C8_FailedOpenChangesNothing ==
  [][ (lastOp' = "open" /\ libRet' # 0) =>
        /\ ret' = libRet'
        /\ fb'.buf = fb.buf /\ fb'.f.buf = fb.f.buf
        /\ heap' = heap
        /\ fb'.prev_width = fb.prev_width /\ fb'.prev_height = fb.prev_height
        /\ fb'.prev_scale = fb.prev_scale
        /\ fb'.resized = fb.resized
    ]_vars

C8_Witness ==
  /\ Live /\ lastOp = "open" /\ libRet # 0 /\ ret = libRet
  /\ ~InSyncWithCache(fb)
  /\ fb.f.phys_width > 0
  /\ BufLen # PhysBytes(fb.f)

\* C9: when fenster_open succeeds, fenster_bridge_open returns 0; if the
\* physical size differs from the cached previous size it calls calloc and,
\* given a block, installs it in fb->buf and f.buf at phys_width x
\* phys_height x 4 bytes, releases the old buffer and sets the cache to the
\* physical size; if the sizes are equal the buffer stays as it is.
C9_OpenReallocates ==
  [][ (lastOp' = "open" /\ libRet' = 0) =>
        /\ ret' = 0
        /\ IF PhysSize(fb'.f) # <<fb.prev_width, fb.prev_height>>
             THEN /\ path' \in {"ok", "fail"}
                  /\ path' = "ok" =>
                       /\ fb'.buf # fb.buf
                       /\ fb'.f.buf = fb'.buf
                       /\ heap'[fb'.buf] = PhysBytes(fb'.f)
                       /\ heap'[fb.buf] = NotLive
                       /\ <<fb'.prev_width, fb'.prev_height>> = PhysSize(fb'.f)
             ELSE /\ path' = "same"
                  /\ fb'.buf = fb.buf /\ fb'.f.buf = fb.f.buf
                  /\ heap' = heap
    ]_vars

C9_Witness ==
  /\ Live /\ lastOp = "open" /\ libRet = 0 /\ ret = 0 /\ path = "ok"
  /\ fb.resized = 0
  /\ fb.prev_width = fb.f.phys_width /\ fb.prev_height = fb.f.phys_height
  /\ BufLen = PhysBytes(fb.f)
  /\ fb.f.phys_width # fb.f.width

\* C10: when the calloc of a resize in open or loop returns NULL, the old
\* buffer stays (same address in fb->buf and f.buf, still live), the resize
\* flag is not touched, and the call returns 0 (open) or the status of
\* fenster_loop (loop).
C10_AllocFailureIsSilent ==
  [][ (lastOp' \in {"open", "loop"} /\ path' = "fail") =>
        /\ fb'.buf = fb.buf /\ fb'.f.buf = fb.buf
        /\ heap' = heap
        /\ heap'[fb'.buf] # NotLive
        /\ fb'.resized = fb.resized
        /\ ret' = IF lastOp' = "open" THEN 0 ELSE libRet'
    ]_vars

C10_Witness ==
  /\ Live /\ lastOp = "loop" /\ path = "fail" /\ ret = Stop
  /\ fb.f.buf = fb.buf
  /\ BufLen # PhysBytes(fb.f)
  /\ fb.resized = 0

\* C11: set_scale stores the scale and sets the physical width and height to
\* (int)(logical x scale); it leaves the buffer pointers, the heap, the
\* logical size, the cached previous width, height and scale and the resize
\* flag as they were.  The buffer of a live handle changes only in open and
\* loop, and only when the physical size (after the library call) differs
\* from the cache.
C11_SetScaleDoesNotReallocate ==
  [][ /\ lastOp' = "set_scale" =>
           /\ fb'.f.phys_width = (fb.f.width * fb'.f.scale) \div ScaleDen
           /\ fb'.f.phys_height = (fb.f.height * fb'.f.scale) \div ScaleDen
           /\ fb'.f.width = fb.f.width /\ fb'.f.height = fb.f.height
           /\ fb'.buf = fb.buf /\ fb'.f.buf = fb.f.buf
           /\ heap' = heap
           /\ fb'.prev_width = fb.prev_width /\ fb'.prev_height = fb.prev_height
           /\ fb'.prev_scale = fb.prev_scale
           /\ fb'.resized = fb.resized
      /\ (Live /\ hstate' = "live" /\ fb'.buf # fb.buf) =>
           /\ lastOp' \in {"open", "loop"}
           /\ PhysSize(fb'.f) # <<fb.prev_width, fb.prev_height>>
    ]_vars

C11_Witness ==
  /\ Live /\ lastOp = "set_scale"
  /\ fb.f.scale = ScaleDen + 1
  /\ fb.f.phys_width = 3 /\ fb.f.width = 2
  /\ ~InSyncWithCache(fb)
  /\ BufLen # PhysBytes(fb.f)

\* C12: close on a null handle calls nothing and releases nothing; close on
\* a handle calls fenster_close, then frees the pixel buffer, then the title
\* copy, then the handle record, in that order, so fenster_close never
\* comes after a release.
C12_CloseOrder ==
  [][ /\ (lastOp' = "close" /\ hstate = "none") =>
           /\ closeLog' = closeLog
           /\ heap' = heap /\ objs' = objs /\ fb' = fb /\ hstate' = hstate
      /\ (lastOp' = "close" /\ hstate = "live") =>
           /\ Len(closeLog') = Len(closeLog) + 4
           /\ closeLog'[Len(closeLog) + 1] = "fenster_close"
           /\ closeLog'[Len(closeLog) + 2] = "free_buf"
           /\ closeLog'[Len(closeLog) + 3] = "free_title"
           /\ closeLog'[Len(closeLog) + 4] = "free_fb"
           /\ heap'[fb.buf] = NotLive
           /\ objs'["title"] # "live" /\ objs'["fb"] # "live"
      /\ \A i, j \in 1..Len(closeLog') :
           (closeLog'[i] = "fenster_close" /\ closeLog'[j] # "fenster_close")
             => i < j
    ]_vars

C12_Witness ==
  /\ hstate = "closed" /\ lastOp = "close"
  /\ Len(closeLog) = 4 /\ closeLog[1] = "fenster_close"
  /\ LiveBuffers = {}
  /\ objs["fb"] = "freed" /\ objs["title"] = "freed"

\* C13: a create that returns NULL leaves no handle and no live allocation:
\* when the buffer calloc fails the handle record has been freed, when the
\* handle calloc fails nothing was allocated.  A create that succeeds
\* returns a handle with f.buf = buf, the requested logical size, the cache
\* seeded to that size and to scale 1.0, and the resize flag clear.
C13_CreateCleanOrSeeded ==
  [][ lastOp' = "create" =>
        IF ret' = NULL
          THEN /\ hstate' = "none"
               /\ heap' = heap
               /\ {a \in Addr : heap'[a] # NotLive} = {}
               /\ objs'["fb"] \in {"unalloc", "freed"}
               /\ objs'["title"] = "unalloc"
          ELSE /\ hstate' = "live"
               /\ fb'.buf # NULL /\ fb'.f.buf = fb'.buf
               /\ heap'[fb'.buf] = fb'.f.width * fb'.f.height * PixelBytes
               /\ fb'.f.width \in Widths /\ fb'.f.height \in Heights
               /\ fb'.prev_width = fb'.f.width
               /\ fb'.prev_height = fb'.f.height
               /\ fb'.prev_scale = ScaleDen
               /\ fb'.resized = 0
    ]_vars

C13_Witness ==
  /\ lastOp = "create" /\ ret = NULL
  /\ hstate = "none"
  /\ objs["fb"] = "freed" /\ objs["title"] = "unalloc"
  /\ LiveBuffers = {}

\* C14: the block fb->buf of a live handle is always prev_width x
\* prev_height x 4 bytes long.  The cached previous width and height of a
\* live handle change only in an open or loop call that installs a new
\* buffer; a failed allocation and set_scale leave them alone.
C14_CacheDescribesBuffer ==
  [][ /\ hstate' = "live" =>
           heap'[fb'.buf] = fb'.prev_width * fb'.prev_height * PixelBytes
      /\ (Live /\ hstate' = "live"
            /\ <<fb'.prev_width, fb'.prev_height>>
                 # <<fb.prev_width, fb.prev_height>>) =>
           /\ lastOp' \in {"open", "loop"}
           /\ path' = "ok"
           /\ fb'.buf # fb.buf
           /\ <<fb'.prev_width, fb'.prev_height>> = PhysSize(fb'.f)
      /\ (Live /\ (path' = "fail" \/ lastOp' = "set_scale")) =>
           /\ fb'.prev_width = fb.prev_width
           /\ fb'.prev_height = fb.prev_height
           /\ fb'.buf = fb.buf
    ]_vars

C14_Witness ==
  /\ Live /\ path = "fail"
  /\ BufLen > 0
  /\ BufLen = fb.prev_width * fb.prev_height * PixelBytes
  /\ BufLen # PhysBytes(fb.f)

C16_FailedResizeRetried ==
     [][ lastOp' = "loop" =>
           /\ (path' \in {"ok", "fail"})
                <=> (PhysSize(fb'.f) # <<fb.prev_width, fb.prev_height>>)
           /\ path' = "fail" =>
                /\ ~InSyncWithCache(fb')
                /\ fb'.buf = fb.buf /\ fb'.resized = fb.resized
           /\ path' = "ok" =>
                /\ heap'[fb'.buf] = PhysBytes(fb'.f)
                /\ InSyncWithCache(fb')
                /\ fb'.resized = 1
           /\ (InSyncWithCache(fb) /\ LibKept) =>
                /\ path' = "same"
                /\ fb'.buf = fb.buf /\ heap' = heap
       ]_vars

\* Under SpecRetry, where pumps with a successful allocation are not
\* withheld for ever, a live handle whose physical size differs from the
\* cache reaches a state where they agree and the buffer has the physical
\* size, unless it is closed first.
RetryEventuallySyncs ==
  (Live /\ ~InSyncWithCache(fb))
    ~> (~Live \/ (InSyncWithCache(fb) /\ BufLen = PhysBytes(fb.f)))

C16_Witness ==
  /\ Live /\ lastOp = "loop" /\ path = "ok"
  /\ libRet = Continue
  /\ scen = "pumped"
  /\ fb.resized = 1
  /\ InSyncWithCache(fb) /\ BufLen = PhysBytes(fb.f)
  /\ fb.f.phys_width # fb.f.width

\* C17: loop returns the status fenster_loop produced, whether the size test
\* was false, the allocation succeeded or the allocation failed; the size
\* test and the allocation run also when that status tells the window to
\* stop, whereas open returns before its size test when fenster_open fails.
C17_LoopReturnsLibraryStatus ==
  [][ /\ lastOp' = "loop" =>
           /\ ret' = libRet'
           /\ path' \in {"same", "ok", "fail"}
           /\ (PhysSize(fb'.f) # <<fb.prev_width, fb.prev_height>>)
                => path' \in {"ok", "fail"}
           /\ (libRet' = Stop /\ path' = "ok") =>
                /\ fb'.buf # fb.buf
                /\ heap'[fb'.buf] = PhysBytes(fb'.f)
                /\ fb'.resized = 1
      /\ (lastOp' = "open" /\ libRet' # 0) =>
           /\ ret' = libRet'
           /\ path' = "skip"
           /\ fb'.buf = fb.buf /\ heap' = heap
    ]_vars

C17_Witness ==
  /\ Live /\ lastOp = "loop"
  /\ libRet = Stop /\ ret = Stop
  /\ path = "ok" /\ fb.resized = 1
  /\ fb.f.dpy = HasDpy
  /\ BufLen > 0 /\ BufLen = PhysBytes(fb.f)
====
